---- MODULE Spec2Model ----
(***************************************************************************)
(* A model of rust-streaming's buffers.rs: the delimiter search            *)
(* (SliceContains), the fragmenting DribbleBuffer, the ChunkBuffer         *)
(* (fill_buf, top_up, consume) and the read_chunks loop that drives it.    *)
(* Byte sequences are TLA+ sequences; a Rust index i is position i+1.      *)
(***************************************************************************)
EXTENDS Integers, Sequences, FiniteSets, TLC

\* ------------------------------------------------------------------ bounds

\* Longest input stream drawn in Init (besides the spec's scenario stream).
MaxLen == 4

\* Longest haystack drawn for the search specification.
MaxHay == 4

\* ----------------------------------------------------------- byte sequences

LF == 10

\* The bytes streams are built from: the line feed and one other byte ('a').
Bytes == {LF, 97}

\* All sequences over S of length lo..hi.
SeqsBetween(S, lo, hi) == UNION {[1..n -> S] : n \in lo..hi}

\* Rust's v[..n] and v[n..].
Take(v, n) == SubSeq(v, 1, n)
Drop(v, n) == SubSeq(v, n + 1, Len(v))

\* Rust's v.slice(a, b): the bytes at indices a..b-1.
Slice(v, a, b) == SubSeq(v, a + 1, b)

MinOf(a, b) == IF a <= b THEN a ELSE b

Least(S) == CHOOSE x \in S : \A y \in S : x <= y

\* Option<uint>: None is the empty set, Some(i) is {i}.
None == {}
Some(i) == {i}
Unwrap(o) == CHOOSE x \in o : TRUE

\* ---------------------------------------------------------- SliceContains

\* contains_slice_pos: the needle is ignored; the search is for the pair 10,10.
ContainsSlicePos(self, needle) ==
    IF Len(self) < 2 THEN None
    ELSE LET hits == {i \in 0..(Len(self) - 2) :
                         self[i + 1] = LF /\ self[i + 2] = LF}
         IN  IF hits = {} THEN None ELSE Some(Least(hits))

ContainsSlice(self, needle) == ContainsSlicePos(self, needle) # None

\* ------------------------------------------------------------ the sources

EofResult == [kind |-> "eof", view |-> <<>>]
ErrResult == [kind |-> "err", view |-> <<>>]
OkResult(v) == [kind |-> "ok", view |-> v]

\* MemReader::fill_buf over (buf, pos): all unread bytes, or EndOfFile.
MemFillBuf(buf, p) ==
    IF p < Len(buf) THEN OkResult(Drop(buf, p)) ELSE EofResult

\* task_rng().gen::<uint>() % 6
DribbleModulus == 6
DribbleLimits == 0..(DribbleModulus - 1)

\* DribbleBuffer::fill_buf as mutated: the slice is taken from the end of
\* the wrapped source's view.
DribbleFillBufSuffix(original) ==
    IF original.kind # "ok" THEN {original}
    ELSE {OkResult(Drop(original.view, Len(original.view)
                           - MinOf(Len(original.view), limit))) :
              limit \in DribbleLimits}

\* DribbleBuffer::fill_buf on the wrapped source's result: every result the
\* random limit can produce.
DribbleFillBuf(original) ==
    IF original.kind # "ok" THEN {original}
    ELSE {OkResult(Take(original.view, MinOf(Len(original.view), limit))) :
              limit \in DribbleLimits}

\* ------------------------------------------------------------ ChunkBuffer

\* top_up's scan window, when `read` has been pushed onto `buffer`: the
\* bytes from scan_start to scan_end of the new buffer.
ScanWindow(buffer, boundary, read) ==
    LET buf_len == Len(buffer)
        bound_len == Len(boundary)
        scan_start == buf_len - MinOf(buf_len, bound_len - 1)
        scan_end == MinOf(buf_len + (bound_len - 1), buf_len + Len(read))
    IN  Slice(buffer \o read, scan_start, scan_end)

\* One pass through top_up's loop body, given the source's fill_buf result
\* `r`: the new buffer, the amount passed to input.consume, and how the
\* pass leaves: "loop" (next pass), "ok" (Ok(buffer)), "err" (Err(err)),
\* "panic" (a failed assertion, or a slice beyond the view).
TopUpPass(buffer, boundary, r) ==
    IF r.kind = "eof" THEN
        \* Exit 1: end of file, use whatever we've got.
        [buffer |-> buffer, consumed |-> 0, exit |-> "ok"]
    ELSE IF r.kind = "err" THEN
        \* Exit 2: a hard error.
        [buffer |-> buffer, consumed |-> 0, exit |-> "err"]
    ELSE
        LET read == r.view
            found == ContainsSlicePos(read, boundary)
        IN  IF found # None THEN
                LET pos == Least(found)
                    bytes == pos + Len(boundary)
                IN  IF bytes > Len(read) THEN
                        \* read[..bytes] is out of range
                        [buffer |-> buffer, consumed |-> 0, exit |-> "panic"]
                    ELSE
                        LET pushed == buffer \o Take(read, bytes)
                        IN  [buffer |-> pushed, consumed |-> bytes,
                             exit |-> IF ContainsSlice(pushed, boundary)
                                      THEN "ok" ELSE "panic"]
            ELSE
                LET pushed == buffer \o read
                    check == ScanWindow(buffer, boundary, read)
                    done == ContainsSlice(check, boundary)
                IN  [buffer |-> pushed, consumed |-> Len(read),
                     exit |-> IF ~done THEN "loop"
                              ELSE IF ContainsSlice(pushed, boundary)
                              THEN "ok" ELSE "panic"]

\* Whether a pass of top_up given `r` leaves the loop with done = true and
\* so comes to the assertion on the buffer that follows the loop's consume.
ReachesDone(buffer, boundary, r) ==
    /\ r.kind = "ok"
    /\ LET found == ContainsSlicePos(r.view, boundary)
       IN  IF found # None
           THEN Least(found) + Len(boundary) <= Len(r.view)
           ELSE ContainsSlice(ScanWindow(buffer, boundary, r.view), boundary)

\* Whether fill_buf calls input.fill_buf itself: only with an empty buffer.
ReadsInput(buffer, boundary) ==
    ~ContainsSlice(buffer, boundary) /\ Len(buffer) = 0

\* The placeholder for the input's result when fill_buf does not ask for it.
NotRead == [kind |-> "none", view |-> <<>>]

\* fill_buf as mutated: Exit 3 returns only hard errors, and EndOfFile falls
\* through to top_up.
FillBufHeadEofToTopUp(buffer, boundary, r) ==
    IF ContainsSlice(buffer, boundary) THEN
        [kind |-> "ok", view |-> buffer, from |-> "buffer"]
    ELSE IF Len(buffer) > 0 THEN
        [kind |-> "top_up", view |-> <<>>, from |-> "buffer"]
    ELSE IF r.kind = "err" THEN
        [kind |-> r.kind, view |-> <<>>, from |-> "source"]
    ELSE IF r.kind = "ok" /\ ContainsSlice(r.view, boundary) THEN
        [kind |-> "ok", view |-> r.view, from |-> "source"]
    ELSE
        [kind |-> "top_up", view |-> <<>>, from |-> "buffer"]

\* ChunkBuffer::fill_buf up to its return or its call of top_up, given the
\* input's fill_buf result `r` (read only when ReadsInput): what is
\* returned, or "top_up".
FillBufHead(buffer, boundary, r) ==
    IF ContainsSlice(buffer, boundary) THEN
        \* Exit 1: valid data in our local buffer.
        [kind |-> "ok", view |-> buffer, from |-> "buffer"]
    ELSE IF Len(buffer) > 0 THEN
        \* Exit 2: top_up
        [kind |-> "top_up", view |-> <<>>, from |-> "buffer"]
    ELSE IF r.kind # "ok" THEN
        \* Exit 3: error when reading the underlying buffer.
        [kind |-> r.kind, view |-> <<>>, from |-> "source"]
    ELSE IF ContainsSlice(r.view, boundary) THEN
        \* Exit 4: the input's view, returned directly.
        [kind |-> "ok", view |-> r.view, from |-> "source"]
    ELSE
        \* Exit 5: top_up
        [kind |-> "top_up", view |-> <<>>, from |-> "buffer"]

\* Vec::swap_remove(index): the element at index is replaced by the last
\* one and the vector shrinks by one; out of range, nothing happens.
SwapRemove(v, index) ==
    IF index >= Len(v) THEN v
    ELSE [k \in 1..(Len(v) - 1) |-> IF k = index + 1 THEN v[Len(v)] ELSE v[k]]

\* Vec::truncate(len)
Truncate(v, len) == IF len < Len(v) THEN Take(v, len) ELSE v

\* for i in range(from, keeping) { buffer.swap_remove(keeping-(i+1)); }
RECURSIVE SwapRemoveLoop(_, _, _)
SwapRemoveLoop(v, keeping, i) ==
    IF i >= keeping THEN v
    ELSE SwapRemoveLoop(SwapRemove(v, keeping - (i + 1)), keeping, i + 1)

\* ChunkBuffer::consume on a non-empty buffer, with amt <= buffer.len().
ConsumeBuffer(buffer, amt) ==
    LET keeping == Len(buffer) - amt
    IN  Truncate(SwapRemoveLoop(buffer, keeping, 0), keeping)

\* top_up run to its return over a MemReader (buf, p) read directly.
RECURSIVE MemTopUp(_, _, _, _)
MemTopUp(buf, p, buffer, boundary) ==
    LET t == TopUpPass(buffer, boundary, MemFillBuf(buf, p))
    IN  IF t.exit = "loop"
        THEN MemTopUp(buf, p + t.consumed, t.buffer, boundary)
        ELSE [kind |-> t.exit, buffer |-> t.buffer, pos |-> p + t.consumed,
              view |-> IF t.exit = "ok" THEN t.buffer ELSE <<>>]

\* fill_buf run to its return over a MemReader (buf, p) read directly.
MemChunkFillBuf(buf, p, buffer, boundary) ==
    LET r == IF ReadsInput(buffer, boundary) THEN MemFillBuf(buf, p)
             ELSE NotRead
        h == FillBufHead(buffer, boundary, r)
    IN  IF h.kind = "top_up" THEN MemTopUp(buf, p, buffer, boundary)
        ELSE [kind |-> h.kind, buffer |-> buffer, pos |-> p, view |-> h.view]

\* read_chunks over a ChunkBuffer that reads the MemReader (buf, p)
\* directly, as in reading_chunks: how the loop ends and what it has read.
RECURSIVE MemReadChunks(_, _, _, _, _)
MemReadChunks(buf, p, buffer, boundary, acc) ==
    LET f == MemChunkFillBuf(buf, p, buffer, boundary)
        n == Len(f.view)
    IN  IF f.kind = "ok" THEN
            IF Len(f.buffer) > 0
            THEN MemReadChunks(buf, f.pos, ConsumeBuffer(f.buffer, n),
                               boundary, acc \o f.view)
            ELSE MemReadChunks(buf, f.pos + n, f.buffer, boundary,
                               acc \o f.view)
        ELSE [pc |-> IF f.kind = "eof" THEN "eof" ELSE "failed",
              read |-> acc]

\* ------------------------------------------------------------------ state

VARIABLES
    data,       \* the underlying reader's bytes (MemReader.buf)
    pos,        \* the underlying reader's position (MemReader.pos)
    faults,     \* I/O errors the underlying reader may still raise
    via,        \* "direct": ChunkBuffer over the reader;
                \* "dribble": ChunkBuffer over DribbleBuffer over the reader
    boundary,   \* ChunkBuffer.boundary
    buffer,     \* ChunkBuffer.buffer
    pc,         \* "idle": between calls; "top_up": inside top_up's loop;
                \* "eof": read_chunks left its loop; "failed": panicked
    ret,        \* what the last fill_buf returned
    prev,       \* what the fill_buf before it returned, if no consume since
    call,       \* the call in progress or last made, with the state it began in
    caller,     \* "read_chunks": the fill/consume-all loop; "free": any calls
    read,       \* read_chunks' `read` vector
    chunks,     \* the chunks read_chunks was given, in order
    srch,       \* the search specification's haystack, needle and result
    it          \* the streaming_for specification's iterator and loop

vars == <<data, pos, faults, via, boundary, buffer, pc, ret, prev, call,
          caller, read, chunks, srch, it>>

\* I/O errors the underlying reader may raise in one run.
MaxFaults == 1

\* Longest boundary drawn in Init.
MaxBoundary == 3

\* Most chunks a run of read_chunks is followed for.
MaxChunks == 4

\* S of the spec's concrete scenario: a 10 10 b 10 10 c.
Scenario == <<97, LF, LF, 98, LF, LF, 99>>

Streams == SeqsBetween(Bytes, 0, MaxLen) \cup {Scenario}

Boundaries == SeqsBetween(Bytes, 1, MaxBoundary)

Result(kind, view, from) == [kind |-> kind, view |-> view, from |-> from]
NoResult == Result("none", <<>>, "none")
Pending == Result("pending", <<>>, "none")

NoCall == [op |-> "none", amt |-> 0, buffer |-> <<>>, pos |-> 0]
NoIter == [bytes |-> <<>>, cur |-> 0, evals |-> 0, nexts |-> 0, count |-> 0,
           items |-> <<>>, at |-> "start"]
NoSearch == [haystack |-> <<>>, needle |-> <<>>, found |-> None,
             contains |-> FALSE, done |-> FALSE]

\* The underlying reader's fill_buf: MemReader's result, or an I/O error
\* while the reader may still raise one.
InputFillBuf ==
    {MemFillBuf(data, pos)} \cup (IF faults > 0 THEN {ErrResult} ELSE {})

\* fill_buf of some other T: Buffer over (buf, p): a view of any number of
\* the unread bytes, none included, or EndOfFile once all bytes are read.
AnyFillBuf(buf, p) ==
    {OkResult(Take(Drop(buf, p), n)) : n \in 0..(Len(buf) - p)}
        \cup (IF p < Len(buf) THEN {} ELSE {EofResult})

\* fill_buf of the ChunkBuffer's input: the reader's, DribbleBuffer's, or
\* that of another T: Buffer.
SourceFillBuf ==
    IF via = "direct" THEN InputFillBuf
    ELSE IF via = "dribble"
    THEN UNION {DribbleFillBuf(original) : original \in InputFillBuf}
    ELSE AnyFillBuf(data, pos)

Init ==
    /\ data \in Streams
    /\ pos = 0
    /\ faults \in 0..MaxFaults
    /\ via \in {"direct", "dribble"}
    /\ boundary \in Boundaries
    /\ buffer = <<>>
    /\ pc = "idle"
    /\ ret = NoResult
    /\ prev = NoResult
    /\ call = NoCall
    /\ caller \in {"read_chunks", "free"}
    /\ read = <<>>
    /\ chunks = <<>>
    /\ srch = NoSearch
    /\ it = NoIter

\* A ChunkBuffer over some other T: Buffer.
AnySourceInit ==
    /\ data \in Streams
    /\ pos = 0
    /\ faults = 0
    /\ via = "any"
    /\ boundary \in Boundaries
    /\ buffer = <<>>
    /\ pc = "idle"
    /\ ret = NoResult
    /\ prev = NoResult
    /\ call = NoCall
    /\ caller \in {"read_chunks", "free"}
    /\ read = <<>>
    /\ chunks = <<>>
    /\ srch = NoSearch
    /\ it = NoIter

\* A fill_buf call returns r to the caller. read_chunks pushes an Ok chunk
\* onto `read`, breaks at EndOfFile and fails on any other error.
Return(r) ==
    /\ ret' = r
    /\ pc' = IF r.kind = "panic" THEN "failed"
             ELSE IF caller = "read_chunks" /\ r.kind = "eof" THEN "eof"
             ELSE IF caller = "read_chunks" /\ r.kind = "err" THEN "failed"
             ELSE "idle"
    /\ read' = IF caller = "read_chunks" /\ r.kind = "ok"
               THEN read \o r.view ELSE read
    /\ chunks' = IF caller = "read_chunks" /\ r.kind = "ok"
                 THEN Append(chunks, r.view) ELSE chunks

\* An I/O error uses up one of the reader's faults.
Spend(r) == faults' = IF r.kind = "err" THEN faults - 1 ELSE faults

\* ChunkBuffer::fill_buf, up to its return or its call of top_up.
FillBuf ==
    /\ pc = "idle"
    /\ caller = "read_chunks" => ret.kind = "none"
    /\ Len(chunks) < MaxChunks
    /\ call' = [op |-> "fill", amt |-> 0, buffer |-> buffer, pos |-> pos]
    /\ prev' = ret
    /\ UNCHANGED <<data, via, boundary, buffer, pos, caller, srch, it>>
    /\ \E r \in (IF ReadsInput(buffer, boundary) THEN SourceFillBuf
                 ELSE {NotRead}) :
           LET h == FillBufHead(buffer, boundary, r)
           IN  /\ Spend(r)
               /\ IF h.kind = "top_up"
                  THEN /\ pc' = "top_up"
                       /\ ret' = Pending
                       /\ UNCHANGED <<read, chunks>>
                  ELSE Return(h)

\* top_up as mutated: each pass consumes the whole view from the input,
\* whatever part of it was appended to the buffer.
TopUpConsumesView ==
    /\ pc = "top_up"
    /\ \E r \in SourceFillBuf :
           LET t == TopUpPass(buffer, boundary, r)
           IN  /\ Spend(r)
               /\ buffer' = t.buffer
               /\ pos' = pos + Len(r.view)
               /\ IF t.exit = "loop"
                  THEN UNCHANGED <<pc, ret, read, chunks>>
                  ELSE Return(Result(t.exit, IF t.exit = "ok" THEN t.buffer
                                             ELSE <<>>, "buffer"))
    /\ UNCHANGED <<data, via, boundary, prev, call, caller, srch, it>>

\* One pass of top_up's loop: fill_buf on the input, the match, consume.
TopUp ==
    /\ pc = "top_up"
    /\ \E r \in SourceFillBuf :
           LET t == TopUpPass(buffer, boundary, r)
           IN  /\ Spend(r)
               /\ buffer' = t.buffer
               /\ pos' = pos + t.consumed
               /\ IF t.exit = "loop"
                  THEN UNCHANGED <<pc, ret, read, chunks>>
                  ELSE Return(Result(t.exit, IF t.exit = "ok" THEN t.buffer
                                             ELSE <<>>, "buffer"))
    /\ UNCHANGED <<data, via, boundary, prev, call, caller, srch, it>>

\* consume as mutated: no assertion; an amount beyond the buffer empties
\* the buffer and the excess is forwarded to the input.
ConsumeCallClamped(amt) ==
    /\ call' = [op |-> "consume", amt |-> amt, buffer |-> buffer, pos |-> pos]
    /\ prev' = NoResult
    /\ ret' = NoResult
    /\ IF Len(buffer) > 0 THEN
           IF amt <= Len(buffer) THEN
               /\ buffer' = ConsumeBuffer(buffer, amt)
               /\ UNCHANGED <<pos, pc>>
           ELSE
               /\ buffer' = <<>>
               /\ pos' = pos + (amt - Len(buffer))
               /\ UNCHANGED pc
       ELSE
           /\ pos' = pos + amt
           /\ UNCHANGED <<buffer, pc>>
    /\ UNCHANGED <<data, faults, via, boundary, caller, read, chunks, srch, it>>

\* ChunkBuffer::consume(amt).
ConsumeCall(amt) ==
    /\ call' = [op |-> "consume", amt |-> amt, buffer |-> buffer, pos |-> pos]
    /\ prev' = NoResult
    /\ IF Len(buffer) > 0 THEN
           IF amt <= Len(buffer) THEN
               /\ buffer' = ConsumeBuffer(buffer, amt)
               /\ ret' = NoResult
               /\ UNCHANGED <<pos, pc>>
           ELSE
               \* assert!(amt <= self.buffer.len())
               /\ pc' = "failed"
               /\ ret' = Result("panic", <<>>, "none")
               /\ UNCHANGED <<pos, buffer>>
       ELSE
           \* self.input.consume(amt): MemReader's pos += amt
           /\ pos' = pos + amt
           /\ ret' = NoResult
           /\ UNCHANGED <<buffer, pc>>
    /\ UNCHANGED <<data, faults, via, boundary, caller, read, chunks, srch, it>>

\* read_chunks: chunked.consume(consumed), the length of the chunk just read.
ReadChunksConsume ==
    /\ caller = "read_chunks"
    /\ pc = "idle"
    /\ ret.kind = "ok"
    /\ ConsumeCall(Len(ret.view))

\* Any caller: consume after a fill_buf that returned a view, with any
\* amount up to the view's length, or one more when the buffer can tell.
Consume ==
    /\ caller = "free"
    /\ pc = "idle"
    /\ ret.kind = "ok"
    /\ \E amt \in 0..(Len(ret.view) + 1) :
           /\ amt > Len(ret.view) => Len(buffer) > 0
           /\ ConsumeCall(amt)

Next == FillBuf \/ TopUp \/ ReadChunksConsume \/ Consume

Spec == Init /\ [][Next]_vars

AnySourceSpec == AnySourceInit /\ [][Next]_vars

\* A pass of top_up that does not leave everything as it was: the input
\* gave EndOfFile, an error, or a view of at least one byte.
TopUpProgress == TopUp /\ (pc' # "top_up" \/ pos' > pos)

\* The test's thread keeps running: read_chunks' loop goes on calling
\* fill_buf and consume, top_up's loop goes on, and DribbleBuffer's random
\* limit is not 0 forever.
Fairness ==
    /\ WF_vars(FillBuf)
    /\ WF_vars(ReadChunksConsume)
    /\ WF_vars(TopUpProgress)

FairSpec == Spec /\ Fairness

\* ------------------------------------------- the search, on its own inputs

\* A haystack and a needle of length >= 1; the ChunkBuffer is not used.
SearchInit ==
    /\ srch \in {[haystack |-> h, needle |-> n, found |-> None,
                  contains |-> FALSE, done |-> FALSE] :
                     h \in SeqsBetween(Bytes, 0, MaxHay), n \in Boundaries}
    /\ data = <<>> /\ pos = 0 /\ faults = 0 /\ via = "direct"
    /\ boundary = <<LF, LF>> /\ buffer = <<>> /\ pc = "idle"
    /\ ret = NoResult /\ prev = NoResult /\ call = NoCall
    /\ caller = "free" /\ read = <<>> /\ chunks = <<>> /\ it = NoIter

\* haystack.contains_slice_pos(needle) and haystack.contains_slice(needle)
Search ==
    /\ ~srch.done
    /\ srch' = [srch EXCEPT
                   !.found = ContainsSlicePos(srch.haystack, srch.needle),
                   !.contains = ContainsSlice(srch.haystack, srch.needle),
                   !.done = TRUE]
    /\ UNCHANGED <<data, pos, faults, via, boundary, buffer, pc, ret, prev,
                   call, caller, read, chunks, it>>

SearchSpec == SearchInit /\ [][Search]_vars

\* ------------------------------------------- DribbleBuffer, read on its own

\* MemReader::consume(amt): pos += amt
MemConsume(p, amt) == p + amt

\* DribbleBuffer::consume(amt): self.input.consume(amt)
DribbleConsume(p, amt) == MemConsume(p, amt)

\* A DribbleBuffer over the reader, with no ChunkBuffer; the caller
\* "reader" reads it by fill_buf and consume of what was returned.
DribbleInit ==
    /\ data \in Streams
    /\ pos = 0
    /\ faults \in 0..MaxFaults
    /\ via = "dribble"
    /\ caller = "reader"
    /\ boundary = <<LF, LF>> /\ buffer = <<>> /\ pc = "idle"
    /\ ret = NoResult /\ prev = NoResult /\ call = NoCall
    /\ read = <<>> /\ chunks = <<>> /\ srch = NoSearch /\ it = NoIter

\* The reader's fill_buf on the DribbleBuffer: a view is pushed onto `read`,
\* EndOfFile ends the reading, any other error fails it.
DribbleFill ==
    /\ caller = "reader"
    /\ pc = "idle"
    /\ ret.kind = "none"
    /\ \E original \in InputFillBuf :
           \E r \in DribbleFillBuf(original) :
               /\ Spend(r)
               /\ ret' = Result(r.kind, r.view, "source")
               /\ read' = read \o r.view
               /\ pc' = IF r.kind = "ok" THEN "idle"
                        ELSE IF r.kind = "eof" THEN "eof" ELSE "failed"
    /\ call' = [op |-> "fill", amt |-> 0, buffer |-> <<>>, pos |-> pos]
    /\ UNCHANGED <<data, pos, via, boundary, buffer, prev, caller, chunks,
                   srch, it>>

\* The reader's consume of the whole view it was given.
DribbleUse ==
    /\ caller = "reader"
    /\ pc = "idle"
    /\ ret.kind = "ok"
    /\ pos' = DribbleConsume(pos, Len(ret.view))
    /\ call' = [op |-> "consume", amt |-> Len(ret.view), buffer |-> <<>>,
                pos |-> pos]
    /\ ret' = NoResult
    /\ UNCHANGED <<data, faults, via, boundary, buffer, pc, prev, caller,
                   read, chunks, srch, it>>

DribbleSpec == DribbleInit /\ [][DribbleFill \/ DribbleUse]_vars

\* ------------------------------------------- streaming_for over BufferIter

\* Longest BufferIter drawn for the streaming_for specification.
MaxIter == 3

\* The bytes of the test's BufferIter: 0, 1, 2.
IterBytes == 0..2

\* BufferIter::next as mutated: the test is cur + 1 >= bytes.len().
BufferIterNextEarly(bytes, cur) ==
    IF cur + 1 >= Len(bytes) THEN [item |-> None, cur |-> cur]
    ELSE [item |-> Some(Slice(bytes, cur, cur + 1)), cur |-> cur + 1]

\* BufferIter::next: None at the end, else cur += 1 and the one-byte slice
\* bytes.slice(cur - 1, cur).
BufferIterNext(bytes, cur) ==
    IF cur >= Len(bytes) THEN [item |-> None, cur |-> cur]
    ELSE [item |-> Some(Slice(bytes, (cur + 1) - 1, cur + 1)), cur |-> cur + 1]

\* A BufferIter with cur = 0, streaming_for not yet entered.
IterInit ==
    /\ it \in {[bytes |-> b, cur |-> 0, evals |-> 0, nexts |-> 0, count |-> 0,
                items |-> <<>>, at |-> "start"] :
                   b \in SeqsBetween(IterBytes, 0, MaxIter)}
    /\ srch = NoSearch
    /\ data = <<>> /\ pos = 0 /\ faults = 0 /\ via = "direct"
    /\ boundary = <<LF, LF>> /\ buffer = <<>> /\ pc = "idle"
    /\ ret = NoResult /\ prev = NoResult /\ call = NoCall
    /\ caller = "free" /\ read = <<>> /\ chunks = <<>>

\* streaming_for!: let ref mut iter = &mut $expr;
ForEval ==
    /\ it.at = "start"
    /\ it' = [it EXCEPT !.evals = @ + 1, !.at = "loop"]
    /\ UNCHANGED <<data, pos, faults, via, boundary, buffer, pc, ret, prev,
                   call, caller, read, chunks, srch>>

\* streaming_for!: one turn of the loop: match iter.next(); None breaks,
\* Some(val) runs the body (the test's count += 1).
ForNext ==
    /\ it.at = "loop"
    /\ LET n == BufferIterNext(it.bytes, it.cur)
       IN  it' = IF n.item = None
                 THEN [it EXCEPT !.nexts = @ + 1, !.at = "done"]
                 ELSE [it EXCEPT !.nexts = @ + 1, !.cur = n.cur,
                                 !.count = @ + 1,
                                 !.items = Append(@, Unwrap(n.item))]
    /\ UNCHANGED <<data, pos, faults, via, boundary, buffer, pc, ret, prev,
                   call, caller, read, chunks, srch>>

IterSpec == IterInit /\ [][ForEval \/ ForNext]_vars

\* ----------------------------------------------------------------- claims

\* A read_chunks run that has ended, and not by an I/O error of the reader.
RunEnded == caller = "read_chunks" /\ pc \in {"eof", "failed"} /\ ret.kind # "err"

\* C1 (round trip): for every boundary and stream, the fill/consume-all
\* loop runs until fill_buf reports EndOfFile, and the chunks it was given,
\* concatenated in order, are then exactly the stream.
C1_RoundTrip == RunEnded => (pc = "eof" /\ read = data)

\* Aux for C1: a run that does reach EndOfFile has read exactly the stream.
RoundTripAtEof == (caller = "read_chunks" /\ pc = "eof") => read = data

\* Aux for C1: with the boundary 10,10 no fill_buf or consume call panics.
NoPanicForLfLf ==
    (caller = "read_chunks" /\ boundary = <<LF, LF>>) => ret.kind # "panic"

\* Genuine substring search, as the claims state it: the indices at which
\* needle occurs in hay.
Occurrences(hay, needle) ==
    {i \in 0..(Len(hay) - Len(needle)) :
        SubSeq(hay, i + 1, i + Len(needle)) = needle}

Occurs(hay, needle) == Occurrences(hay, needle) # {}

EndsWith(hay, needle) == (Len(hay) - Len(needle)) \in Occurrences(hay, needle)

\* C2 (boundary presence): in a fill/consume-all run every chunk but the
\* last one returned contains the configured boundary.
C2_BoundaryPresence ==
    caller = "read_chunks" =>
        \A i \in 1..(Len(chunks) - 1) : Occurs(chunks[i], boundary)

\* Aux for C2: the same for the pair 10,10, whatever the boundary.
LfLfPresence ==
    caller = "read_chunks" =>
        \A i \in 1..(Len(chunks) - 1) : Occurs(chunks[i], <<LF, LF>>)

\* C3 (idempotent peek): two fill_buf calls with no consume between them
\* return the same bytes.
C3_IdempotentPeek ==
    (pc = "idle" /\ prev.kind = "ok" /\ ret.kind = "ok") => ret.view = prev.view

\* Aux for C3: the same when the ChunkBuffer reads the MemReader directly.
IdempotentPeekDirect == via = "direct" => C3_IdempotentPeek

\* C4 (fragmentation invariance): a run through DribbleBuffer ends as the
\* run over the same stream read directly, having read the same bytes.
C4_FragmentationInvariance ==
    (RunEnded /\ via = "dribble") =>
        [pc |-> pc, read |-> read] = MemReadChunks(data, 0, <<>>, boundary, <<>>)

\* Aux for C4: with a boundary of length 2 the run through DribbleBuffer
\* ends as the direct run does.
FragmentationInvarianceLen2 == Len(boundary) = 2 => C4_FragmentationInvariance

\* C5 (consume): consume(n) on a non-empty buffer of length L >= n leaves
\* the buffer without its first n bytes, the rest in order.
C5_ConsumeDropsFront ==
    (call.op = "consume" /\ Len(call.buffer) > 0 /\ call.amt <= Len(call.buffer))
        => buffer = Drop(call.buffer, call.amt)

\* Aux for C5: the same when at least half of the buffer is consumed.
ConsumeDropsFrontOfHalf == 2 * call.amt >= Len(call.buffer) => C5_ConsumeDropsFront

\* C6 (failed fill): when fill_buf returns an I/O error, the buffer and the
\* input's position are those the call began with.
C6_ErrorLeavesState ==
    (call.op = "fill" /\ ret.kind = "err") =>
        (buffer = call.buffer /\ pos = call.pos)

\* C7 (delimiter search): contains_slice_pos returns the first index at
\* which the needle occurs in the haystack, None when it does not occur,
\* and contains_slice tells whether it occurs.
C7_GenuineSearch ==
    srch.done =>
        LET occ == Occurrences(srch.haystack, srch.needle)
        IN  /\ srch.found = (IF occ = {} THEN None ELSE Some(Least(occ)))
            /\ srch.contains = (occ # {})

\* Aux for C7: the same with the needle 10,10.
SearchFindsLfLf == srch.needle = <<LF, LF>> => C7_GenuineSearch

\* The stream offset at which the i-th chunk given to read_chunks ends.
RECURSIVE ChunkEnd(_)
ChunkEnd(i) == IF i = 0 THEN 0 ELSE ChunkEnd(i - 1) + Len(chunks[i])

\* C8 (chunk breaks), for the boundary 10,10: every chunk of a
\* fill/consume-all run ends with the boundary or at the end of the stream.
C8_BreaksOnlyAfterBoundary ==
    (caller = "read_chunks" /\ boundary = <<LF, LF>>) =>
        \A i \in 1..Len(chunks) :
            EndsWith(chunks[i], boundary) \/ ChunkEnd(i) = Len(data)

\* C9 (scenario): over a 10 10 b 10 10 c with the boundary 10,10 the loop is
\* given the three chunks a 10 10, b 10 10 and c, and then EndOfFile.
C9_ScenarioChunks ==
    (RunEnded /\ data = Scenario /\ boundary = <<LF, LF>>) =>
        /\ pc = "eof"
        /\ chunks = << <<97, LF, LF>>, <<98, LF, LF>>, <<99>> >>

\* The bytes of the stream after its last occurrence of the boundary.
StreamTail ==
    LET occ == Occurrences(data, boundary)
        last == CHOOSE i \in occ : \A j \in occ : j <= i
    IN  Drop(data, last + Len(boundary))

\* C10 (undelimited tail), for the boundary 10,10: when bytes follow the
\* last boundary of the stream, the last chunk given before EndOfFile ends
\* with all of them (the tail is neither dropped nor split).
C10_TailInLastChunk ==
    (caller = "read_chunks" /\ pc = "eof" /\ boundary = <<LF, LF>>
        /\ Occurs(data, boundary) /\ StreamTail # <<>>) =>
            /\ Len(chunks) > 0
            /\ EndsWith(chunks[Len(chunks)], StreamTail)

\* C11 (empty input): over an empty stream, read directly or through
\* DribbleBuffer, fill_buf never returns a chunk, the buffer stays empty,
\* top_up is never entered, and every fill_buf that is not an I/O error of
\* the reader returns EndOfFile.
C11_EmptyInput ==
    data = <<>> =>
        /\ buffer = <<>>
        /\ chunks = <<>>
        /\ pc # "top_up"
        /\ ret.kind \in {"none", "eof", "err"}
        /\ (call.op = "fill" /\ ret.kind # "err") => ret.kind = "eof"

\* Witness for C11: the first fill_buf over an empty stream wrapped in
\* DribbleBuffer has returned EndOfFile.
C11_Witness ==
    data = <<>> /\ via = "dribble" /\ call.op = "fill" /\ ret.kind = "eof"

\* C12 (protocol misuse): consume(n) on a non-empty buffer shorter than n
\* panics, the buffer and the input's position staying as they were.
C12_MisuseFailsFast ==
    (call.op = "consume" /\ Len(call.buffer) > 0 /\ call.amt > Len(call.buffer))
        => /\ pc = "failed"
           /\ ret.kind = "panic"
           /\ buffer = call.buffer
           /\ pos = call.pos

\* Witness for C12: such a consume has been made.
C12_Witness ==
    /\ call.op = "consume" /\ Len(call.buffer) > 0
    /\ call.amt > Len(call.buffer) /\ pc = "failed"

\* C13 (streaming_for): the iterator expression is evaluated once; the body
\* has run once for each item next returned, the i-th item being the
\* one-byte slice at index i; when the loop has ended, next has been called
\* once more than the body ran and the body ran once per byte.
C13_StreamingFor ==
    /\ it.evals = (IF it.at = "start" THEN 0 ELSE 1)
    /\ it.count = Len(it.items)
    /\ it.count = it.cur
    /\ \A i \in 1..Len(it.items) : it.items[i] = <<it.bytes[i]>>
    /\ it.at = "loop" => it.nexts = it.count
    /\ it.at = "done" => (it.nexts = it.count + 1 /\ it.count = Len(it.bytes))

\* Witness for C13: the loop over the bytes 0, 1, 2 has ended after three
\* runs of its body.
C13_Witness == it.at = "done" /\ it.bytes = <<0, 1, 2>> /\ it.count = 3

IsPrefix(p, v) == Len(p) <= Len(v) /\ Take(v, Len(p)) = p

\* C14 (DribbleBuffer): each view DribbleBuffer returns is a prefix of the
\* wrapped reader's view, at most 5 bytes long; EndOfFile is returned
\* exactly when the wrapped reader is at its end (and no I/O error came);
\* the bytes read so far are the stream's first bytes, in order, and at
\* EndOfFile they are the whole stream.
C14_DribbleTransparent ==
    caller = "reader" =>
        /\ (call.op = "fill" /\ ret.kind = "ok") =>
               /\ IsPrefix(ret.view, Drop(data, call.pos))
               /\ Len(ret.view) <= MinOf(5, Len(data) - call.pos)
        /\ (call.op = "fill" /\ ret.kind # "err") =>
               (ret.kind = "eof" <=> MemFillBuf(data, call.pos) = EofResult)
        /\ ret.kind = "ok" => read = Take(data, pos) \o ret.view
        /\ ret.kind # "ok" => read = Take(data, pos)
        /\ pc = "eof" => read = data

\* Witness for C14: the seven-byte scenario stream, which no single view of
\* DribbleBuffer can hold, has been read to EndOfFile.
C14_Witness == caller = "reader" /\ pc = "eof" /\ data = Scenario

\* The views the input may return to a pass of top_up that takes the
\* scan-window branch: no match of the search in the view.
ScannedViews ==
    {r.view : r \in {x \in SourceFillBuf :
                        x.kind = "ok" /\ ContainsSlicePos(x.view, boundary) = None}}

\* C15 (split delimiter): when a view without the delimiter is appended to
\* a buffer without the delimiter, top_up returns the buffer as ready
\* exactly when the whole buffer now contains the delimiter.
C15_ScanWindowDetects ==
    (pc = "top_up" /\ ~Occurs(buffer, boundary)) =>
        \A view \in ScannedViews :
            ~Occurs(view, boundary) =>
                (TopUpPass(buffer, boundary, OkResult(view)).exit = "ok"
                    <=> Occurs(buffer \o view, boundary))

\* Aux for C15: the same with the boundary 10,10.
ScanWindowDetectsLfLf == boundary = <<LF, LF>> => C15_ScanWindowDetects

\* Aux for C15: top_up's scan-window branch decides by searching ScanWindow,
\* and a genuine search of that window for the boundary would find it
\* exactly when the whole buffer contains it.
ScanWindowArithmetic ==
    (pc = "top_up" /\ ~Occurs(buffer, boundary)) =>
        \A view \in ScannedViews :
            /\ TopUpPass(buffer, boundary, OkResult(view)).exit # "loop"
                   <=> ContainsSlice(ScanWindow(buffer, boundary, view), boundary)
            /\ ~Occurs(view, boundary) =>
                   (Occurs(ScanWindow(buffer, boundary, view), boundary)
                       <=> Occurs(buffer \o view, boundary))

\* What a fill_buf call does when it only reads the buffer: it returns the
\* buffer it was called with, without entering top_up, and the buffer and
\* the input's position are as they were.
PureRead ==
    /\ pc # "top_up"
    /\ ret = Result("ok", call.buffer, "buffer")
    /\ buffer = call.buffer
    /\ pos = call.pos

\* C16 (ready fill is a pure read): a fill_buf called with a buffer that
\* contains the delimiter returns exactly the buffer, does not call the
\* input, and leaves the buffer and the input's position unchanged.
C16_ReadyFillPureRead ==
    (call.op = "fill" /\ Occurs(call.buffer, boundary)) => PureRead

\* Aux for C16: the same with the boundary 10,10.
ReadyFillPureReadLfLf == boundary = <<LF, LF>> => C16_ReadyFillPureRead

\* Aux for C16: Exit 1 is a pure read whenever the code's own search
\* matches the buffer.
ReadyFillPureReadOfSearch ==
    (call.op = "fill" /\ ContainsSlice(call.buffer, boundary)) => PureRead

\* Aux for C16: a fill_buf has been called on a buffer with 10,10.
ReadyFillReached == call.op = "fill" /\ ContainsSlice(call.buffer, boundary)

\* C17 (zero-copy fast path): with an empty buffer, a view of the input
\* that contains the delimiter is returned as it is; the buffer stays empty
\* and nothing is consumed from the input; the consume that follows is
\* passed to the input with the same amount and leaves the buffer empty.
C17_ZeroCopyFastPath ==
    /\ (pc = "idle" /\ buffer = <<>>) =>
           \A r \in SourceFillBuf :
               (r.kind = "ok" /\ Occurs(r.view, boundary)) =>
                   FillBufHead(buffer, boundary, r) = Result("ok", r.view, "source")
    /\ (call.op = "fill" /\ ret.kind = "ok" /\ ret.from = "source") =>
           /\ call.buffer = <<>>
           /\ buffer = <<>>
           /\ pos = call.pos
    /\ (call.op = "consume" /\ call.buffer = <<>>) =>
           /\ buffer = <<>>
           /\ pos = call.pos + call.amt

\* Aux for C17: the same with the boundary 10,10.
ZeroCopyFastPathLfLf == boundary = <<LF, LF>> => C17_ZeroCopyFastPath

\* Aux for C17: the fast path has been taken and its view consumed.
ZeroCopyFastPathReached ==
    /\ boundary = <<LF, LF>>
    /\ call.op = "consume" /\ call.buffer = <<>> /\ call.amt > 0
    /\ Len(chunks) = 1

\* The end of the first occurrence of needle in hay.
FirstEnd(hay, needle) == Least(Occurrences(hay, needle)) + Len(needle)

\* C18 (top-up on a view that contains the delimiter): the pass appends to
\* the buffer the view's prefix through the end of the first occurrence of
\* the delimiter, consumes that many bytes from the input and returns the
\* buffer; no pass appends or consumes more than the view holds.
C18_TopUpTakesPrefix ==
    pc = "top_up" =>
        \A r \in SourceFillBuf :
            LET t == TopUpPass(buffer, boundary, r)
            IN  r.kind = "ok" =>
                    /\ t.exit # "panic"
                    /\ t.consumed <= Len(r.view)
                    /\ Len(t.buffer) - Len(buffer) <= Len(r.view)
                    /\ Occurs(r.view, boundary) =>
                           /\ t.exit = "ok"
                           /\ t.consumed = FirstEnd(r.view, boundary)
                           /\ t.buffer = buffer \o Take(r.view, FirstEnd(r.view, boundary))

\* Aux for C18: the same with the boundary 10,10.
TopUpTakesPrefixLfLf == boundary = <<LF, LF>> => C18_TopUpTakesPrefix

\* Aux for C18: a pass of top_up has taken a proper prefix of a view with
\* 10,10.
TopUpTakesPrefixReached ==
    /\ boundary = <<LF, LF>>
    /\ pc = "top_up"
    /\ \E r \in SourceFillBuf :
           /\ r.kind = "ok" /\ Occurs(r.view, boundary)
           /\ TopUpPass(buffer, boundary, r).consumed < Len(r.view)

\* C19 (no empty chunk): when the input reports EndOfFile to top_up and
\* the buffer is empty, fill_buf returns EndOfFile; fill_buf never returns
\* an Ok chunk of length zero.
C19_NoEmptyChunk ==
    /\ (pc = "top_up" /\ buffer = <<>>) =>
           \A r \in SourceFillBuf :
               r.kind = "eof" => TopUpPass(buffer, boundary, r).exit = "eof"
    /\ ret.kind = "ok" => Len(ret.view) > 0

\* Aux for C19: over MemReader and DribbleBuffer no chunk is empty, and
\* top_up is never at EndOfFile with an empty buffer.
NoEmptyChunkOfReaders ==
    /\ C19_NoEmptyChunk
    /\ (pc = "top_up" /\ buffer = <<>>) =>
           \A r \in SourceFillBuf : r.kind # "eof"

\* Aux for C19: top_up has been entered with an empty buffer, on a
\* zero-length view of DribbleBuffer.
TopUpOnEmptyReached == via = "dribble" /\ pc = "top_up" /\ buffer = <<>>

\* The chunks read_chunks was given that lack the boundary.
Undelimited == {i \in 1..Len(chunks) : ~Occurs(chunks[i], boundary)}

\* A fill_buf called with an empty buffer on an input at its end returns
\* no chunk and changes nothing.
ExhaustedFill ==
    (call.op = "fill" /\ call.buffer = <<>> /\ call.pos >= Len(data)) =>
        /\ ret.kind \in {"eof", "err"}
        /\ buffer = <<>>
        /\ pos = call.pos

\* C20 (exhaustion is terminal): once the input is at its end and the
\* buffer is empty, every later fill_buf returns EndOfFile and no chunk;
\* at most one of the chunks of a stream lacks the delimiter.
C20_ExhaustionTerminal ==
    /\ ExhaustedFill
    /\ caller = "read_chunks" => Cardinality(Undelimited) <= 1

\* Aux for C20: the same with the boundary 10,10.
ExhaustionTerminalLfLf == boundary = <<LF, LF>> => C20_ExhaustionTerminal

\* Aux for C20: the first half holds for every boundary.
ExhaustionTerminalFill == ExhaustedFill

\* Aux for C20: a fill_buf on an exhausted ChunkBuffer has returned
\* EndOfFile after a last chunk without 10,10.
ExhaustionReached ==
    /\ boundary = <<LF, LF>> /\ caller = "read_chunks"
    /\ call.op = "fill" /\ call.buffer = <<>> /\ call.pos >= Len(data)
    /\ pc = "eof" /\ Cardinality(Undelimited) = 1

\* A fill_buf call has returned one of its results: a chunk, EndOfFile or
\* an I/O error.
Returned == pc \in {"idle", "eof"} \/ (pc = "failed" /\ ret.kind = "err")

\* C21 (termination): when DribbleBuffer does not return zero-length views
\* forever, every fill_buf call returns a chunk, EndOfFile or an error, and
\* read_chunks' loop, when no I/O error stops it, ends at EndOfFile.
C21_Termination ==
    /\ (pc = "top_up") ~> Returned
    /\ (caller = "read_chunks") ~> (pc = "eof" \/ (pc = "failed" /\ ret.kind = "err"))

\* Aux for C21: the same with the boundary 10,10.
TerminationLfLf ==
    /\ (boundary = <<LF, LF>> /\ pc = "top_up") ~> Returned
    /\ (boundary = <<LF, LF>> /\ caller = "read_chunks")
           ~> (pc = "eof" \/ (pc = "failed" /\ ret.kind = "err"))

\* Aux for C21: every call of top_up ends, by a return or by a panic.
TopUpEnds == (pc = "top_up") ~> (pc # "top_up")

\* C22 (byte conservation): during and after a fill_buf call, whatever its
\* outcome, the buffer followed by the input's unconsumed bytes is what it
\* was when the call began, and the bytes consumed from the input since
\* then are at the end of the buffer, in order.
C22_ByteConservation ==
    call.op = "fill" =>
        /\ call.pos <= pos /\ pos <= Len(data)
        /\ buffer \o Drop(data, pos) = call.buffer \o Drop(data, call.pos)
        /\ buffer = call.buffer \o Slice(data, call.pos, pos)

\* A fill_buf that began with bytes in the buffer has returned a chunk to
\* which top_up added bytes of the input.
C22_Witness ==
    /\ call.op = "fill" /\ pc = "idle" /\ ret.kind = "ok"
    /\ Len(call.buffer) > 0 /\ pos > call.pos

\* Aux for C22: a fill_buf has returned an I/O error after top_up consumed
\* bytes of the input.
ConservedAtError == call.op = "fill" /\ ret.kind = "err" /\ pos > call.pos

\* top_up's assertion on entry holds: before the first pass has changed
\* anything, the search does not match the buffer.
EntryAssertion ==
    (pc = "top_up" /\ buffer = call.buffer /\ pos = call.pos) =>
        ~ContainsSlice(buffer, boundary)

\* top_up's assertion at its done exit holds for whatever view the input
\* gives next: the search matches the buffer the pass has built.
DoneAssertion ==
    pc = "top_up" =>
        \A r \in SourceFillBuf :
            ReachesDone(buffer, boundary, r) =>
                ContainsSlice(TopUpPass(buffer, boundary, r).buffer, boundary)

\* C23 (assertion validity): for every boundary and every sequence of
\* fill_buf/consume calls and views, top_up's assertions hold: on entry the
\* buffer does not contain the boundary, at the done exit it does.
C23_AssertionValidity == EntryAssertion /\ DoneAssertion

\* Aux for C23: the same with the boundary 10,10.
AssertionValidityLfLf == boundary = <<LF, LF>> => C23_AssertionValidity

\* Aux for C23: the entry assertion holds for every boundary.
EntryAssertionHolds == EntryAssertion

\* Aux for C23: a failed assertion is what ends the call, and the pass has
\* consumed from the input by then.
DoneAssertionFailed ==
    /\ call.op = "fill" /\ ret.kind = "panic" /\ pc = "failed"
    /\ buffer # call.buffer /\ ~ContainsSlice(buffer, boundary)
====
